---- MODULE Spec2Model ----
(***************************************************************************)
(* OpenAIRealtimeManager (src/src/nyra_realtime/openai_manager.py).        *)
(*                                                                         *)
(* The manager runs on one asyncio event loop, so a step of the model is   *)
(* the code a coroutine runs between two points where it really suspends:  *)
(* the await of ws_factory(), of the transport's send() and recv(), of a   *)
(* get() on an empty queue and of asyncio.sleep().  put() on the unbounded *)
(* queues and get() on a non-empty queue do not suspend.  The transports   *)
(* are those of the TransportFactory contract (send, recv, close); their   *)
(* close() completes without suspending, as the transports of the          *)
(* repository's tests and demo do.  A task that is cancelled takes no      *)
(* further step of its own, so cancel() moves it to "cancelled" at once.   *)
(***************************************************************************)
EXTENDS Integers, Sequences, FiniteSets, TLC

\* ---- bounds of the model ----
MaxAttempts == 3     \* connect() calls of run_forever, and factory invocations in all
MaxConnects == 2     \* direct connect() calls that reach the factory
MaxSends    == 2     \* send_audio() calls
MaxRecv     == 2     \* frames the transports hand to recv()
MaxSubs     == 2     \* subscribers per event

Frame == 1..(MaxSends + MaxRecv)     \* payloads: opaque bytes, never inspected
Sub   == {"cb"}                      \* subscriber functions
Raising == {"boom"}                  \* subscriber functions that raise when invoked
FactoryKind == {"none", "ok", "fail2", "flaky"}
    \* none:  ws_factory=None
    \* ok:    a factory that returns a transport each time (the tests' and the demo's)
    \* fail2: the factory of test_reconnect_behavior
    \* flaky: a factory whose every invocation may fail or return a transport

None      == 0                       \* Python None, for handles and tasks
NoTimeout == -1                      \* receive_voice(timeout=None)
Timeout   == {NoTimeout, 0, 1}       \* not supplied, zero, a positive duration
Handle    == 1..MaxAttempts          \* the n-th factory invocation returns handle n

\* durations in milliseconds
reconnect_backoff == <<100, 200, 500, 1000>>     \* the default schedule
PollInterval == 50                               \* asyncio.sleep(0.05)

VARIABLES
    ws_factory,          \* the configured factory (fixed at construction)
    ws,                  \* self._ws
    connected,           \* self.connected
    send_queue,          \* self._send_queue
    recv_queue,          \* self._recv_queue
    sender_task,         \* self._sender_task   (None or the task's number)
    receiver_task,       \* self._receiver_task
    on_connected,        \* self._on_connected
    on_disconnected,     \* self._on_disconnected
    on_message,          \* self._on_message
    connect_attempts,    \* self._connect_attempts
    senders,             \* every _sender_loop task created: pc and frame in flight
    receivers,           \* every _receiver_loop task created: pc and transport awaited
    getters,             \* tasks blocked in self._send_queue.get(), oldest first
    closeCalls,          \* per handle: number of close() invocations
    connCalls,           \* direct connect() calls awaiting the factory (attempt numbers)
    rvPc, rvTimeout, rvElapsed,    \* the receive_voice() caller
    rfPc, rfCall, backoff_index,   \* run_forever: position, attempt awaited, local
    rfTries,             \* number of connect() calls run_forever has made
    rfSleep,             \* the asyncio.sleep() run_forever is in (0: none)
    stop,                \* stop_event.is_set()
    audioLog,            \* frames passed to send_audio, in call order
    wireLog,             \* frames passed to a transport's send, in invocation order
    recvLog,             \* frames returned by a transport's recv, in arrival order
    voiceLog,            \* frames returned by receive_voice, in return order
    out                  \* what the last step did: operation, error raised, callbacks run

mgrVars  == <<ws, connected, send_queue, recv_queue, sender_task, receiver_task,
              connect_attempts>>
cbVars   == <<on_connected, on_disconnected, on_message>>
taskVars == <<senders, receivers, getters>>
rvVars   == <<rvPc, rvTimeout, rvElapsed>>
rfVars   == <<rfPc, rfCall, backoff_index, rfTries, rfSleep, stop>>
logVars  == <<audioLog, wireLog, recvLog, voiceLog>>
vars == <<ws_factory, mgrVars, cbVars, taskVars, closeCalls, connCalls, rvVars,
          rfVars, logVars, out>>

\* ---- helpers ----
Min(a, b) == IF a < b THEN a ELSE b

Remove(s, x) == SelectSeq(s, LAMBDA y : y # x)

\* out: the operation that completed in the step, the exception it raised or
\* handled, and the subscriber calls it made, in order
Step(op, err, ev) == [op |-> op, err |-> err, ev |-> ev]
Quiet == Step("-", "-", <<>>)      \* a step that completes no operation

\* mutant: "for cb in <list>: cb(arg)", the first exception ends the for
NotifyUnguarded(list, event, arg) ==
    LET bad == {i \in 1..Len(list) : list[i] \in Raising}
        n   == IF bad = {} THEN Len(list)
               ELSE CHOOSE i \in bad : \A j \in bad : i <= j
    IN  [i \in 1..n |-> [e |-> event, sub |-> list[i], arg |-> arg]]

\* mutant: "for cb in dict.fromkeys(<list>)", each subscriber once
NotifyDistinct(list, event, arg) ==
    LET first == SelectSeq([i \in 1..Len(list) |-> i],
                           LAMBDA i : \A j \in 1..(i - 1) : list[j] # list[i])
    IN  [k \in 1..Len(first) |-> [e |-> event, sub |-> list[first[k]], arg |-> arg]]

\* for cb in <list>: try: cb(arg) except Exception: log
\* (every subscriber is invoked, whether or not one before it raised)
Notify(list, event, arg) ==
    [i \in 1..Len(list) |-> [e |-> event, sub |-> list[i], arg |-> arg]]

\* hasattr(self._ws, "send" / "recv" / "close"): None has none of them
HasSend(w)  == w # None
HasRecv(w)  == w # None
HasCloseMisspelt(w) == FALSE        \* mutant: hasattr(self._ws, "closed")
HasClose(w) == w # None

\* the outcome of the n-th invocation of the factory
FactoryMayFail(n)   == \/ ws_factory = "flaky"
                       \/ ws_factory = "fail2" /\ n <= 2
FactoryMayReturn(n) == \/ ws_factory \in {"ok", "flaky"}
                       \/ ws_factory = "fail2" /\ n > 2

\* Task.cancel(): a task that already finished is left as it is
Cancelled(tasks, t) ==
    IF t # None /\ tasks[t].pc \in {"start", "waiting", "sending", "recving", "sleeping"}
    THEN [tasks EXCEPT ![t].pc = "cancelled"]
    ELSE tasks

\* the manager as constructed with one of the factories of kinds; subs is what
\* the register_on_* calls made before the first operation left in each list
InitWith(kinds, subs) ==
    /\ ws_factory \in kinds
    /\ ws = None
    /\ connected = FALSE
    /\ send_queue = <<>>
    /\ recv_queue = <<>>
    /\ sender_task = None
    /\ receiver_task = None
    /\ on_connected = subs
    /\ on_disconnected = subs
    /\ on_message = subs
    /\ connect_attempts = 0
    /\ senders = [h \in Handle |-> [pc |-> "none", frame |-> "-"]]
    /\ receivers = [h \in Handle |-> [pc |-> "none", on |-> None]]
    /\ getters = <<>>
    /\ closeCalls = [h \in Handle |-> 0]
    /\ connCalls = {}
    /\ rvPc = "idle"
    /\ rvTimeout = NoTimeout
    /\ rvElapsed = FALSE
    /\ rfPc = "idle"
    /\ rfCall = None
    /\ backoff_index = 0
    /\ rfTries = 0
    /\ rfSleep = 0
    /\ stop = FALSE
    /\ audioLog = <<>>
    /\ wireLog = <<>>
    /\ recvLog = <<>>
    /\ voiceLog = <<>>
    /\ out = Quiet

Init == InitWith({"none", "flaky"}, <<>>)

\* ---- registration ----
register_on_connected(cb) ==
    /\ Len(on_connected) < MaxSubs
    /\ on_connected' = Append(on_connected, cb)
    /\ out' = Quiet
    /\ UNCHANGED <<ws_factory, mgrVars, on_disconnected, on_message, taskVars,
                   closeCalls, connCalls, rvVars, rfVars, logVars>>

register_on_disconnected(cb) ==
    /\ Len(on_disconnected) < MaxSubs
    /\ on_disconnected' = Append(on_disconnected, cb)
    /\ out' = Quiet
    /\ UNCHANGED <<ws_factory, mgrVars, on_connected, on_message, taskVars,
                   closeCalls, connCalls, rvVars, rfVars, logVars>>

register_on_message(cb) ==
    /\ Len(on_message) < MaxSubs
    /\ on_message' = Append(on_message, cb)
    /\ out' = Quiet
    /\ UNCHANGED <<ws_factory, mgrVars, on_connected, on_disconnected, taskVars,
                   closeCalls, connCalls, rvVars, rfVars, logVars>>

\* ---- connect() ----
\* mutant: the attempt is counted before the connected flag is looked at
ConnectNoopCounts ==
    /\ connected
    /\ connect_attempts' = connect_attempts + 1
    /\ out' = Step("connect_noop", "-", <<>>)
    /\ UNCHANGED <<ws_factory, ws, connected, send_queue, recv_queue, sender_task,
                   receiver_task, cbVars, taskVars, closeCalls, connCalls,
                   rvVars, rfVars, logVars>>

\* if self.connected: return
ConnectNoop ==
    /\ connected
    /\ out' = Step("connect_noop", "-", <<>>)
    /\ UNCHANGED <<ws_factory, mgrVars, cbVars, taskVars, closeCalls, connCalls,
                   rvVars, rfVars, logVars>>

\* mutant: the flag is set before the factory is looked at
ConnectNoFactoryLate ==
    /\ ~connected
    /\ ws_factory = "none"
    /\ connected' = TRUE
    /\ out' = Step("connect_raise", "RuntimeError", <<>>)
    /\ UNCHANGED <<ws_factory, ws, send_queue, recv_queue, sender_task, receiver_task,
                   connect_attempts, cbVars, taskVars, closeCalls, connCalls,
                   rvVars, rfVars, logVars>>

\* if not self.ws_factory: raise RuntimeError(...)
ConnectNoFactory ==
    /\ ~connected
    /\ ws_factory = "none"
    /\ out' = Step("connect_raise", "RuntimeError", <<>>)
    /\ UNCHANGED <<ws_factory, mgrVars, cbVars, taskVars, closeCalls, connCalls,
                   rvVars, rfVars, logVars>>

\* self._connect_attempts += 1; ... await self.ws_factory()   (suspends)
ConnectCall ==
    /\ ~connected
    /\ ws_factory # "none"
    /\ connect_attempts < MaxConnects
    /\ connect_attempts' = connect_attempts + 1
    /\ connCalls' = connCalls \cup {connect_attempts + 1}
    /\ out' = Quiet
    /\ UNCHANGED <<ws_factory, ws, connected, send_queue, recv_queue, sender_task,
                   receiver_task, cbVars, taskVars, closeCalls, rvVars, rfVars,
                   logVars>>

\* the rest of connect() once the factory has returned handle h:
\* store it, set connected, create both tasks
ConnectStore(h) ==
    /\ ws' = h
    /\ connected' = TRUE
    /\ senders' = [senders EXCEPT ![h] = [pc |-> "start", frame |-> "-"]]
    /\ receivers' = [receivers EXCEPT ![h] = [pc |-> "start", on |-> None]]
    /\ sender_task' = h
    /\ receiver_task' = h

ConnectReturn(n) ==
    /\ n \in connCalls
    /\ FactoryMayReturn(n)
    /\ connCalls' = connCalls \ {n}
    /\ ConnectStore(n)
    /\ out' = Step("connect_ok", "-", Notify(on_connected, "on_connected", "-"))
    /\ UNCHANGED <<ws_factory, send_queue, recv_queue, connect_attempts, cbVars,
                   getters, closeCalls, rvVars, rfVars, logVars>>

\* mutant: connect() handles the factory's failure as run_forever does
ConnectRaiseHandled(n) ==
    /\ n \in connCalls
    /\ FactoryMayFail(n)
    /\ connCalls' = connCalls \ {n}
    /\ out' = Step("connect_raise", "ConnectionError",
                   Notify(on_disconnected, "on_disconnected", "ConnectionError"))
    /\ UNCHANGED <<ws_factory, mgrVars, cbVars, taskVars, closeCalls, rvVars,
                   rfVars, logVars>>

\* the factory raised: the exception leaves connect() at the await
ConnectRaise(n) ==
    /\ n \in connCalls
    /\ FactoryMayFail(n)
    /\ connCalls' = connCalls \ {n}
    /\ out' = Step("connect_raise", "ConnectionError", <<>>)
    /\ UNCHANGED <<ws_factory, mgrVars, cbVars, taskVars, closeCalls, rvVars,
                   rfVars, logVars>>

\* ---- disconnect() ----
\* everything disconnect() does to the manager, the tasks and the transport,
\* when it finds transport w, task handles st and rt and the tasks snd and rcv
DisconnectFrom(w, st, rt, snd, rcv) ==
    /\ connected' = FALSE
    /\ senders' = Cancelled(snd, st)
    /\ receivers' = Cancelled(rcv, rt)
    /\ getters' = Remove(getters, st)
    /\ sender_task' = None
    /\ receiver_task' = None
    /\ closeCalls' = IF HasClose(w)
                     THEN [closeCalls EXCEPT ![w] = @ + 1]
                     ELSE closeCalls
    /\ ws' = None

\* mutant: disconnect() also empties the outbound queue
DisconnectFlush ==
    /\ DisconnectFrom(ws, sender_task, receiver_task, senders, receivers)
    /\ send_queue' = <<>>
    /\ out' = Step("disconnect", "-", Notify(on_disconnected, "on_disconnected", "None"))
    /\ UNCHANGED <<ws_factory, recv_queue, connect_attempts, cbVars,
                   connCalls, rvVars, rfVars, logVars>>

\* mutant: "if was_connected:" before the subscriber loop, so that a
\* disconnect() after the connection was already lost notifies nobody
DisconnectOnce ==
    /\ DisconnectFrom(ws, sender_task, receiver_task, senders, receivers)
    /\ out' = Step("disconnect", "-",
                   IF connected THEN Notify(on_disconnected, "on_disconnected", "None")
                   ELSE <<>>)
    /\ UNCHANGED <<ws_factory, send_queue, recv_queue, connect_attempts, cbVars,
                   connCalls, rvVars, rfVars, logVars>>

Disconnect ==
    /\ DisconnectFrom(ws, sender_task, receiver_task, senders, receivers)
    /\ out' = Step("disconnect", "-", Notify(on_disconnected, "on_disconnected", "None"))
    /\ UNCHANGED <<ws_factory, send_queue, recv_queue, connect_attempts, cbVars,
                   connCalls, rvVars, rfVars, logVars>>

\* mutant: no try/except around the close, its exception leaves disconnect()
DisconnectCloseEscapes ==
    /\ ws # None /\ HasClose(ws)
    /\ connected' = FALSE
    /\ senders' = Cancelled(senders, sender_task)
    /\ receivers' = Cancelled(receivers, receiver_task)
    /\ getters' = Remove(getters, sender_task)
    /\ sender_task' = None
    /\ receiver_task' = None
    /\ closeCalls' = [closeCalls EXCEPT ![ws] = @ + 1]
    /\ ws' = ws
    /\ out' = Step("disconnect", "CloseError", <<>>)
    /\ UNCHANGED <<ws_factory, send_queue, recv_queue, connect_attempts, cbVars,
                   connCalls, rvVars, rfVars, logVars>>

\* disconnect() on a transport whose close() raises: "except Exception" logs
\* it and the rest of disconnect() runs
DisconnectCloseRaises ==
    /\ ws # None /\ HasClose(ws)
    /\ DisconnectFrom(ws, sender_task, receiver_task, senders, receivers)
    /\ out' = Step("disconnect", "CloseError",
                   Notify(on_disconnected, "on_disconnected", "None"))
    /\ UNCHANGED <<ws_factory, send_queue, recv_queue, connect_attempts, cbVars,
                   connCalls, rvVars, rfVars, logVars>>

\* ---- send_audio(data) ----
\* await self._send_queue.put(data): the queue is unbounded, put never waits
\* The caller passes distinct payloads: its k-th call passes frame k.
send_audio(data) ==
    /\ Len(audioLog) < MaxSends
    /\ data = Len(audioLog) + 1
    /\ send_queue' = Append(send_queue, data)
    /\ audioLog' = Append(audioLog, data)
    /\ out' = Quiet
    /\ UNCHANGED <<ws_factory, ws, connected, recv_queue, sender_task, receiver_task,
                   connect_attempts, cbVars, taskVars, closeCalls, connCalls,
                   rvVars, rfVars, wireLog, recvLog, voiceLog>>

\* ---- _sender_loop ----
\* The loop from a point where it holds no frame, with connected flag c,
\* transport w and queue q: where it suspends next (or ends), what is left of
\* the queue, and the frames it passed to send() on the way.
RECURSIVE SenderLoop(_, _, _)
SenderLoop(c, w, q) ==
    IF ~c THEN [pc |-> "done", frame |-> "-", q |-> q, wire |-> <<>>]
    ELSE IF q = <<>> THEN [pc |-> "waiting", frame |-> "-", q |-> q, wire |-> <<>>]
    ELSE IF HasSend(w)
         THEN [pc |-> "sending", frame |-> Head(q), q |-> Tail(q), wire |-> <<Head(q)>>]
         ELSE SenderLoop(c, w, Tail(q))   \* "ws has no send() method - dropping frame"

\* get() has returned Head(q) to the loop: the body of the while runs without
\* looking at self.connected again
SenderTake(c, w, q) ==
    IF HasSend(w)
    THEN [pc |-> "sending", frame |-> Head(q), q |-> Tail(q), wire |-> <<Head(q)>>]
    ELSE SenderLoop(c, w, Tail(q))

\* the sender task t moves on as r says
SenderMoves(t, r) ==
    /\ senders' = [senders EXCEPT ![t] = [pc |-> r.pc, frame |-> r.frame]]
    /\ getters' = IF r.pc = "waiting" THEN Append(Remove(getters, t), t)
                  ELSE Remove(getters, t)
    /\ send_queue' = r.q
    /\ wireLog' = wireLog \o r.wire

\* first step of the task: assert self._ws is not None, then the loop
SenderStart(t) ==
    /\ senders[t].pc = "start"
    /\ IF ws = None
       THEN SenderMoves(t, [pc |-> "failed", frame |-> "-", q |-> send_queue, wire |-> <<>>])
       ELSE SenderMoves(t, SenderLoop(connected, ws, send_queue))
    /\ out' = Quiet
    /\ UNCHANGED <<ws_factory, ws, connected, recv_queue, sender_task, receiver_task,
                   connect_attempts, cbVars, receivers, closeCalls, connCalls,
                   rvVars, rfVars, audioLog, recvLog, voiceLog>>

\* a frame is queued and t is the oldest task blocked in get()
SenderWake(t) ==
    /\ senders[t].pc = "waiting"
    /\ getters # <<>> /\ Head(getters) = t
    /\ send_queue # <<>>
    /\ SenderMoves(t, SenderTake(connected, ws, send_queue))
    /\ out' = Quiet
    /\ UNCHANGED <<ws_factory, ws, connected, recv_queue, sender_task, receiver_task,
                   connect_attempts, cbVars, receivers, closeCalls, connCalls,
                   rvVars, rfVars, audioLog, recvLog, voiceLog>>

\* the transport's send() returned: task_done(), back to the while
SendReturn(t) ==
    /\ senders[t].pc = "sending"
    /\ SenderMoves(t, SenderLoop(connected, ws, send_queue))
    /\ out' = Quiet
    /\ UNCHANGED <<ws_factory, ws, connected, recv_queue, sender_task, receiver_task,
                   connect_attempts, cbVars, receivers, closeCalls, connCalls,
                   rvVars, rfVars, audioLog, recvLog, voiceLog>>

\* mutant: the frame whose send failed is put back at the head of the queue
SendRaiseRequeues(t) ==
    /\ senders[t].pc = "sending"
    /\ connected' = FALSE
    /\ send_queue' = <<senders[t].frame>> \o send_queue
    /\ senders' = [senders EXCEPT ![t] = [pc |-> "done", frame |-> "-"]]
    /\ out' = Step("send_raise", "-", Notify(on_disconnected, "on_disconnected", "SendError"))
    /\ UNCHANGED <<ws_factory, ws, recv_queue, sender_task, receiver_task,
                   connect_attempts, cbVars, receivers, getters, closeCalls,
                   connCalls, rvVars, rfVars, logVars>>

\* mutant: no "except Exception" around the send, the error ends the task
SendRaiseEscapes(t) ==
    /\ senders[t].pc = "sending"
    /\ senders' = [senders EXCEPT ![t] = [pc |-> "failed", frame |-> "-"]]
    /\ out' = Step("send_raise", "-", <<>>)
    /\ UNCHANGED <<ws_factory, mgrVars, cbVars, receivers, getters, closeCalls,
                   connCalls, rvVars, rfVars, logVars>>

\* the transport's send() raised: flag disconnected, notify, break
SendRaise(t) ==
    /\ senders[t].pc = "sending"
    /\ connected' = FALSE
    /\ senders' = [senders EXCEPT ![t] = [pc |-> "done", frame |-> "-"]]
    /\ out' = Step("send_raise", "-", Notify(on_disconnected, "on_disconnected", "SendError"))
    /\ UNCHANGED <<ws_factory, ws, send_queue, recv_queue, sender_task, receiver_task,
                   connect_attempts, cbVars, receivers, getters, closeCalls,
                   connCalls, rvVars, rfVars, logVars>>

\* ---- _receiver_loop ----
\* the loop at the top of the while, with connected flag c and transport w
ReceiverLoop(c, w) ==
    IF ~c THEN [pc |-> "done", on |-> None]
    ELSE IF HasRecv(w) THEN [pc |-> "recving", on |-> w]
    ELSE [pc |-> "sleeping", on |-> None]     \* await asyncio.sleep(0.01); continue

ReceiverStart(t) ==
    /\ receivers[t].pc = "start"
    /\ receivers' = [receivers EXCEPT ![t] =
                        IF ws = None THEN [pc |-> "failed", on |-> None]
                        ELSE ReceiverLoop(connected, ws)]
    /\ out' = Quiet
    /\ UNCHANGED <<ws_factory, mgrVars, cbVars, senders, getters, closeCalls,
                   connCalls, rvVars, rfVars, logVars>>

\* mutant: the on_message callbacks run before the put, outside any try: a
\* subscriber that raises ends the iteration before the frame is queued
RecvFrameNotifyFirst(t, f) ==
    /\ receivers[t].pc = "recving"
    /\ closeCalls[receivers[t].on] = 0
    /\ Len(recvLog) < MaxRecv
    /\ f = Len(recvLog) + 1
    /\ recv_queue' = IF \E i \in DOMAIN on_message : on_message[i] \in Raising
                     THEN recv_queue
                     ELSE Append(recv_queue, f)
    /\ recvLog' = Append(recvLog, f)
    /\ receivers' = [receivers EXCEPT ![t] = ReceiverLoop(connected, ws)]
    /\ out' = Step("recv_frame", "-", NotifyUnguarded(on_message, "on_message", f))
    /\ UNCHANGED <<ws_factory, ws, connected, send_queue, sender_task, receiver_task,
                   connect_attempts, cbVars, senders, getters, closeCalls,
                   connCalls, rvVars, rfVars, audioLog, wireLog, voiceLog>>

\* recv() returned a frame: queue it, run the on_message callbacks, loop.
\* A transport that was closed hands out no more frames.
\* The remote end sends distinct payloads: the k-th frame to arrive is frame k.
RecvFrame(t, f) ==
    /\ receivers[t].pc = "recving"
    /\ closeCalls[receivers[t].on] = 0
    /\ Len(recvLog) < MaxRecv
    /\ f = Len(recvLog) + 1
    /\ recv_queue' = Append(recv_queue, f)
    /\ recvLog' = Append(recvLog, f)
    /\ receivers' = [receivers EXCEPT ![t] = ReceiverLoop(connected, ws)]
    /\ out' = Step("recv_frame", "-", Notify(on_message, "on_message", f))
    /\ UNCHANGED <<ws_factory, ws, connected, send_queue, sender_task, receiver_task,
                   connect_attempts, cbVars, senders, getters, closeCalls,
                   connCalls, rvVars, rfVars, audioLog, wireLog, voiceLog>>

\* mutant: no "if result is None", the closed signal is handled as a frame
RecvNoneQueued(t) ==
    /\ receivers[t].pc = "recving"
    /\ recv_queue' = Append(recv_queue, None)
    /\ receivers' = [receivers EXCEPT ![t] = ReceiverLoop(connected, ws)]
    /\ out' = Step("recv_none", "-", Notify(on_message, "on_message", None))
    /\ UNCHANGED <<ws_factory, ws, connected, send_queue, sender_task, receiver_task,
                   connect_attempts, cbVars, senders, getters, closeCalls,
                   connCalls, rvVars, rfVars, logVars>>

\* recv() returned None: remote close
RecvNone(t) ==
    /\ receivers[t].pc = "recving"
    /\ connected' = FALSE
    /\ receivers' = [receivers EXCEPT ![t] = [pc |-> "done", on |-> None]]
    /\ out' = Step("recv_none", "-", Notify(on_disconnected, "on_disconnected", "None"))
    /\ UNCHANGED <<ws_factory, ws, send_queue, recv_queue, sender_task, receiver_task,
                   connect_attempts, cbVars, senders, getters, closeCalls,
                   connCalls, rvVars, rfVars, logVars>>

\* recv() raised
RecvRaise(t) ==
    /\ receivers[t].pc = "recving"
    /\ connected' = FALSE
    /\ receivers' = [receivers EXCEPT ![t] = [pc |-> "done", on |-> None]]
    /\ out' = Step("recv_raise", "-", Notify(on_disconnected, "on_disconnected", "RecvError"))
    /\ UNCHANGED <<ws_factory, ws, send_queue, recv_queue, sender_task, receiver_task,
                   connect_attempts, cbVars, senders, getters, closeCalls,
                   connCalls, rvVars, rfVars, logVars>>

\* ---- receive_voice(timeout) ----
\* "... if timeout else ...": the truth value of the argument picks wait_for
Truthy(timeout) == timeout # NoTimeout /\ timeout # 0

\* mutant: the frame is read but left in the queue
VoicePeek ==
    /\ recv_queue # <<>>
    /\ recv_queue' = recv_queue
    /\ voiceLog' = Append(voiceLog, Head(recv_queue))
    /\ rvPc' = "idle"
    /\ out' = Step("voice_return", "-", <<>>)

\* data = <get()>; self._recv_queue.task_done(); return data
VoiceReturn ==
    /\ recv_queue # <<>>
    /\ recv_queue' = Tail(recv_queue)
    /\ voiceLog' = Append(voiceLog, Head(recv_queue))
    /\ rvPc' = "idle"
    /\ out' = Step("voice_return", "-", <<>>)

receive_voice(timeout) ==
    /\ rvPc = "idle"
    /\ rvTimeout' = timeout
    /\ rvElapsed' = FALSE
    /\ IF recv_queue # <<>>
       THEN VoiceReturn
       ELSE /\ rvPc' = "waiting"
            /\ out' = Quiet
            /\ UNCHANGED <<recv_queue, voiceLog>>
    /\ UNCHANGED <<ws_factory, ws, connected, send_queue, sender_task, receiver_task,
                   connect_attempts, cbVars, taskVars, closeCalls, connCalls,
                   rfVars, audioLog, wireLog, recvLog>>

\* a frame reached the inbound queue while the call was waiting
VoiceArrives ==
    /\ rvPc = "waiting"
    /\ recv_queue # <<>>
    /\ VoiceReturn
    /\ UNCHANGED <<ws_factory, ws, connected, send_queue, sender_task, receiver_task,
                   connect_attempts, cbVars, taskVars, closeCalls, connCalls,
                   rvTimeout, rvElapsed, rfVars, audioLog, wireLog, recvLog>>

\* the duration passed as timeout goes by with no frame in the queue:
\* asyncio.wait_for, when it was used, raises TimeoutError
TimeoutElapses ==
    /\ rvPc = "waiting"
    /\ rvTimeout # NoTimeout
    /\ ~rvElapsed
    /\ recv_queue = <<>>
    /\ rvElapsed' = TRUE
    /\ IF Truthy(rvTimeout)
       THEN /\ rvPc' = "idle"
            /\ out' = Step("voice_raise", "TimeoutError", <<>>)
       ELSE /\ rvPc' = "waiting"
            /\ out' = Quiet
    /\ UNCHANGED <<ws_factory, mgrVars, cbVars, taskVars, closeCalls, connCalls,
                   rvTimeout, rfVars, logVars>>

\* ---- run_forever(stop_event) ----
\* stop_event.set(), by whoever holds the event
SetStop ==
    /\ ~stop
    /\ stop' = TRUE
    /\ out' = Quiet
    /\ UNCHANGED <<ws_factory, mgrVars, cbVars, taskVars, closeCalls, connCalls,
                   rvVars, rfPc, rfCall, backoff_index, rfTries, rfSleep, logVars>>

\* "await self.connect()" at the top of the while, stop not set, with
\* self.connected = c; err and ev are what the step has handled and notified
\* before it came here.  Three ways on:
\*   connected: connect() returns, the poll loop sleeps;
\*   no factory: RuntimeError, caught by "except Exception", back to the while;
\*   else: the factory is invoked and awaited.
RfAttempt(c, err, ev) ==
    /\ rfTries < MaxAttempts
    /\ rfTries' = rfTries + 1
    /\ connected' = c
    /\ IF c
       THEN /\ rfPc' = "poll"
            /\ rfSleep' = PollInterval
            /\ out' = Step("rf_poll", err, ev)
            /\ UNCHANGED <<connect_attempts, rfCall>>
       ELSE IF ws_factory = "none"
       THEN /\ rfPc' = "retry"
            /\ rfSleep' = 0
            /\ out' = Step("rf_retry", "RuntimeError",
                           ev \o Notify(on_disconnected, "on_disconnected", "RuntimeError"))
            /\ UNCHANGED <<connect_attempts, rfCall>>
       ELSE /\ connect_attempts < MaxAttempts
            /\ connect_attempts' = connect_attempts + 1
            /\ rfCall' = connect_attempts + 1
            /\ rfPc' = "factory"
            /\ rfSleep' = 0
            /\ out' = Step("rf_call", err, ev)

\* reconnect_backoff[min(backoff_index, len(self.reconnect_backoff) - 1)]
\* (sequences here start at 1)
BackoffWait(index) == reconnect_backoff[Min(index, Len(reconnect_backoff) - 1) + 1]

\* mutant: "if self.connected: await self.disconnect()" on the way out
RfExitIfConnected(w, st, rt, snd, rcv, err, ev) ==
    /\ IF connected \/ snd # senders
       THEN DisconnectFrom(w, st, rt, snd, rcv)
       ELSE UNCHANGED <<connected, ws, sender_task, receiver_task, senders,
                        receivers, getters, closeCalls>>
    /\ rfPc' = "done"
    /\ rfSleep' = 0
    /\ out' = Step("rf_exit", err, ev \o Notify(on_disconnected, "on_disconnected", "None"))

\* the while is left: "await self.disconnect()", then run_forever returns.
\* The lines after the disconnect (the backoff sleep) are in the handler of an
\* exception leaving disconnect(), which catches its own: they never run.
RfExit(w, st, rt, snd, rcv, err, ev) ==
    /\ DisconnectFrom(w, st, rt, snd, rcv)
    /\ rfPc' = "done"
    /\ rfSleep' = 0
    /\ out' = Step("rf_exit", err, ev \o Notify(on_disconnected, "on_disconnected", "None"))

\* the call of run_forever, up to its first suspension
run_forever ==
    /\ rfPc = "idle"
    /\ backoff_index' = 0
    /\ IF stop
       THEN /\ RfExit(ws, sender_task, receiver_task, senders, receivers, "-", <<>>)
            /\ UNCHANGED <<connect_attempts, rfCall, rfTries>>
       ELSE /\ RfAttempt(connected, "-", <<>>)
            /\ UNCHANGED <<ws, sender_task, receiver_task, taskVars, closeCalls>>
    /\ UNCHANGED <<ws_factory, send_queue, recv_queue, cbVars, connCalls, rvVars,
                   stop, logVars>>

\* back at the top of the while after a connect() that raised at once.  The
\* code does not suspend here; a subscriber it has just notified may have set
\* stop, which is what a SetStop step before this one stands for.
RfRetry ==
    /\ rfPc = "retry"
    /\ IF stop
       THEN /\ RfExit(ws, sender_task, receiver_task, senders, receivers, "-", <<>>)
            /\ UNCHANGED <<connect_attempts, rfCall, rfTries>>
       ELSE /\ RfAttempt(connected, "-", <<>>)
            /\ UNCHANGED <<ws, sender_task, receiver_task, taskVars, closeCalls>>
    /\ UNCHANGED <<ws_factory, send_queue, recv_queue, cbVars, connCalls, rvVars,
                   backoff_index, stop, logVars>>

\* the factory returned to the connect() of run_forever: connect() completes,
\* then the poll loop sleeps, or, with stop set, is skipped and the while left
RfFactoryReturn ==
    /\ rfPc = "factory"
    /\ FactoryMayReturn(rfCall)
    /\ rfCall' = None
    /\ LET h   == rfCall
           snd == [senders EXCEPT ![h] = [pc |-> "start", frame |-> "-"]]
           rcv == [receivers EXCEPT ![h] = [pc |-> "start", on |-> None]]
           ev  == Notify(on_connected, "on_connected", "-")
       IN  IF stop
           THEN /\ RfExit(h, h, h, snd, rcv, "-", ev)
                /\ backoff_index' = 0
           ELSE /\ ConnectStore(h)
                /\ rfPc' = "poll"
                /\ rfSleep' = PollInterval
                /\ out' = Step("rf_poll", "-", ev)
                /\ UNCHANGED <<getters, closeCalls, backoff_index>>
    /\ UNCHANGED <<ws_factory, send_queue, recv_queue, connect_attempts, cbVars,
                   connCalls, rvVars, rfTries, stop, logVars>>

\* mutant: the handler ends the while ("break") instead of going round again
RfGiveUp(exc, ev) ==
    /\ RfExit(ws, sender_task, receiver_task, senders, receivers, exc, ev)
    /\ UNCHANGED <<connect_attempts, rfTries>>
    /\ rfCall' = None

\* what "except Exception as exc" of run_forever does after a failed attempt
\* (exc caught, subscribers notified into ev), with stop as it is
RfAfterFailure(exc, ev) ==
    IF stop
    THEN /\ RfExit(ws, sender_task, receiver_task, senders, receivers, exc, ev)
         /\ UNCHANGED <<connect_attempts, rfTries>>
         /\ rfCall' = None
    ELSE /\ RfAttempt(FALSE, exc, ev)
         /\ UNCHANGED <<ws, sender_task, receiver_task, taskVars, closeCalls>>

\* mutant: the handler of run_forever only logs the failure
RfFactoryRaiseSilent ==
    /\ rfPc = "factory"
    /\ FactoryMayFail(rfCall)
    /\ RfAfterFailure("ConnectionError", <<>>)
    /\ UNCHANGED <<ws_factory, send_queue, recv_queue, cbVars, connCalls, rvVars,
                   backoff_index, stop, logVars>>

\* the factory raised inside the connect() of run_forever
RfFactoryRaise ==
    /\ rfPc = "factory"
    /\ FactoryMayFail(rfCall)
    /\ RfAfterFailure("ConnectionError",
                      Notify(on_disconnected, "on_disconnected", "ConnectionError"))
    /\ UNCHANGED <<ws_factory, send_queue, recv_queue, cbVars, connCalls, rvVars,
                   backoff_index, stop, logVars>>

\* mutant: the poll loop returns from run_forever when the connection is gone
RfPollGivesUp ==
    /\ rfPc = "poll"
    /\ ~connected \/ stop
    /\ backoff_index' = 0
    /\ RfExit(ws, sender_task, receiver_task, senders, receivers, "-", <<>>)
    /\ UNCHANGED <<connect_attempts, rfCall, rfTries>>
    /\ UNCHANGED <<ws_factory, send_queue, recv_queue, cbVars, connCalls, rvVars,
                   stop, logVars>>

\* mutant: a dropped connection is followed by the backoff wait
RfPollBacksOff ==
    /\ rfPc = "poll"
    /\ ~connected \/ stop
    /\ IF stop
       THEN /\ RfExit(ws, sender_task, receiver_task, senders, receivers, "-", <<>>)
            /\ backoff_index' = 0
       ELSE /\ rfPc' = "backoff"
            /\ rfSleep' = BackoffWait(backoff_index)
            /\ backoff_index' = backoff_index + 1
            /\ out' = Quiet
            /\ UNCHANGED <<ws, connected, sender_task, receiver_task, taskVars,
                           closeCalls>>
    /\ UNCHANGED <<connect_attempts, rfCall, rfTries>>
    /\ UNCHANGED <<ws_factory, send_queue, recv_queue, cbVars, connCalls, rvVars,
                   stop, logVars>>

\* the poll loop wakes from asyncio.sleep(0.05) and finds the connection gone
\* or stop set (otherwise it sleeps again, which changes nothing)
RfPoll ==
    /\ rfPc = "poll"
    /\ ~connected \/ stop
    /\ backoff_index' = 0
    /\ IF stop
       THEN /\ RfExit(ws, sender_task, receiver_task, senders, receivers, "-", <<>>)
            /\ UNCHANGED <<connect_attempts, rfCall, rfTries>>
       ELSE /\ RfAttempt(connected, "-", <<>>)
            /\ UNCHANGED <<ws, sender_task, receiver_task, taskVars, closeCalls>>
    /\ UNCHANGED <<ws_factory, send_queue, recv_queue, cbVars, connCalls, rvVars,
                   stop, logVars>>

\* ---- specifications ----
Registration ==
    \/ \E cb \in Sub : register_on_connected(cb)
    \/ \E cb \in Sub : register_on_disconnected(cb)
    \/ \E cb \in Sub : register_on_message(cb)

DirectConnect ==
    \/ ConnectNoop
    \/ ConnectCall
    \/ \E n \in Handle : ConnectReturn(n)
    \/ \E n \in Handle : ConnectRaise(n)

TaskStart ==
    \/ \E t \in Handle : SenderStart(t)
    \/ \E t \in Handle : ReceiverStart(t)

\* the connect() of a manager whose factory is configured
Connects ==
    \/ ConnectNoop
    \/ ConnectCall
    \/ \E n \in Handle : ConnectReturn(n)

ConnectionLoss ==
    \/ \E t \in Handle : RecvNone(t)
    \/ \E t \in Handle : RecvRaise(t)

Outbound ==
    \/ \E f \in Frame : send_audio(f)
    \/ \E t \in Handle : SenderWake(t)
    \/ \E t \in Handle : SendReturn(t)
    \/ \E t \in Handle : SendRaise(t)

Inbound ==
    \/ \E t \in Handle, f \in Frame : RecvFrame(t, f)
    \/ \E timeout \in Timeout : receive_voice(timeout)
    \/ VoiceArrives
    \/ TimeoutElapses

Supervisor ==
    \/ SetStop
    \/ run_forever
    \/ RfRetry
    \/ RfFactoryReturn
    \/ RfFactoryRaise
    \/ RfPoll

\* the manager's lifecycle under direct calls
Next ==
    \/ Registration
    \/ ConnectNoFactory
    \/ DirectConnect
    \/ Disconnect
    \/ TaskStart
    \/ ConnectionLoss

Spec == Init /\ [][Next]_vars

\* the outbound path: send_audio, the sender loops, connections that come and go
InitOutbound == InitWith({"ok"}, <<>>)

NextOutbound ==
    \/ Connects
    \/ Disconnect
    \/ TaskStart
    \/ \E t \in Handle : RecvNone(t)
    \/ Outbound

SpecOutbound == InitOutbound /\ [][NextOutbound]_vars

\* the inbound path: the receiver loops and receive_voice
InitInbound == InitWith({"ok"}, <<>>)

\* (no frame is ever queued for sending here, so the sender loops, which could
\* only block in get(), are left out)
NextInbound ==
    \/ Connects
    \/ Disconnect
    \/ \E t \in Handle : ReceiverStart(t)
    \/ ConnectionLoss
    \/ Inbound

SpecInbound == InitInbound /\ [][NextInbound]_vars

\* run_forever supervising, with one subscriber registered for each event
InitSupervisor == InitWith(FactoryKind, <<"cb">>)

NextSupervisor ==
    \/ Supervisor
    \/ TaskStart
    \/ ConnectionLoss
    \/ Outbound

SpecSupervisor == InitSupervisor /\ [][NextSupervisor]_vars

\* run_forever under the event loop's scheduling: a sleep returns, a coroutine
\* that can run does, and the factory answers every invocation
InitLive == InitWith({"none", "fail2", "flaky"}, <<"cb">>)

NextLive ==
    \/ Supervisor
    \/ TaskStart
    \/ ConnectionLoss

LiveSupervisor ==
    /\ InitLive
    /\ [][NextLive]_vars
    /\ WF_vars(RfFactoryReturn \/ RfFactoryRaise)
    /\ WF_vars(RfPoll)
    /\ WF_vars(RfRetry)

\* the subscriber lists: registration of well-behaved and of raising
\* subscribers, and the operations that notify them.  The application has
\* registered the subscribers of startup for each event before its first
\* operation and may register one more for each event later.
Startup == [1..(MaxSubs - 1) -> Sub \cup Raising]

InitCallbacks == \E startup \in Startup : InitWith({"ok"}, startup)

NextCallbacks ==
    \/ \E cb \in Sub \cup Raising : register_on_connected(cb)
    \/ \E cb \in Sub \cup Raising : register_on_disconnected(cb)
    \/ \E cb \in Sub \cup Raising : register_on_message(cb)
    \/ Connects
    \/ Disconnect
    \/ \E t \in Handle : ReceiverStart(t)
    \/ \E t \in Handle, f \in Frame : RecvFrame(t, f)
    \/ ConnectionLoss

SpecCallbacks == InitCallbacks /\ [][NextCallbacks]_vars

\* the inbound path with a subscriber registered for each event
InitDelivery == InitWith({"ok"}, <<"cb">>)

SpecDelivery == InitDelivery /\ [][NextInbound]_vars

\* teardown with transports whose close() may raise
InitTeardown == InitWith({"ok"}, <<"cb">>)

NextTeardown ==
    \/ Connects
    \/ Disconnect
    \/ DisconnectCloseRaises
    \/ TaskStart
    \/ ConnectionLoss

SpecTeardown == InitTeardown /\ [][NextTeardown]_vars

\* ---- properties ----
Alive(pc) == pc \in {"start", "waiting", "sending", "recving", "sleeping"}

\* a task that has run its first step and is suspended inside its loop
Running(pc) == pc \in {"waiting", "sending", "recving", "sleeping"}

\* a handle the factory has returned to a connect() (its loop tasks exist)
Created(h) == senders[h].pc # "none"

\* C1: outbound FIFO.  The frames passed to the transports' send are, in
\* order, the frames passed to send_audio, none reordered, duplicated or skipped:
\* what send_audio was given is what has been sent followed by what is still
\* queued.
C1_OutboundFifo == audioLog = wireLog \o send_queue

\* C2: inbound FIFO.  The frames receive_voice has returned, followed by the
\* frames still in the inbound queue, are the frames the transports' recv
\* returned, in arrival order: none lost, duplicated or invented.
C2_InboundFifo == recvLog = voiceLog \o recv_queue

\* two frames arrived and were both returned by receive_voice
C2_Witness == Len(voiceLog) = 2 /\ out.op = "voice_return"

\* C3: a connect() that succeeds from Disconnected leaves the manager Connected
\* with the handle the factory returned to it stored; a disconnect() that finds
\* a handle stored leaves the manager Disconnected with no handle stored, and
\* close() has then been invoked exactly once on that handle.
C3_ConnectDisconnect ==
    [][/\ (out'.op = "connect_ok" /\ ~connected)
            => (connected' /\ ws' \in connCalls /\ ws' \notin connCalls')
       /\ (out'.op = "disconnect" /\ ws # None)
            => (~connected' /\ ws' = None /\ closeCalls'[ws] = 1)]_vars

\* disconnect() has run on a connected manager and closed its transport
C3_Witness ==
    /\ out.op = "disconnect"
    /\ \E h \in Handle : closeCalls[h] = 1 /\ senders[h].pc = "cancelled"

\* C4: with no factory configured every connect() fails with the configuration
\* error, and the manager stays Disconnected: no factory invocation, no handle
\* stored, no loop task created, no on_connected subscriber invoked.
C4_NoFactory ==
    ws_factory = "none" =>
        /\ out.op \in {"connect_ok", "connect_noop", "connect_raise"}
              => out.err = "RuntimeError"
        /\ ~connected /\ ws = None
        /\ connect_attempts = 0 /\ connCalls = {}
        /\ sender_task = None /\ receiver_task = None
        /\ \A h \in Handle : senders[h].pc = "none" /\ receivers[h].pc = "none"
        /\ \A i \in DOMAIN out.ev : out.ev[i].e # "on_connected"

\* connect() has raised the configuration error, with a subscriber registered
C4_Witness ==
    /\ ws_factory = "none"
    /\ out.op = "connect_raise" /\ out.err = "RuntimeError"
    /\ on_connected # <<>>

\* C5: a receive_voice call that was given a timeout, zero included, is not
\* left waiting once that duration has gone by with no frame: it has failed
\* with the timeout error.  Only a call given no timeout waits on.
C5_TimeoutHonoured ==
    (rvPc = "waiting" /\ rvTimeout # NoTimeout) => ~rvElapsed

\* C6: in run_forever a connect attempt that fails while stop is not set is
\* followed by a backoff wait before the next attempt: the supervisor sleeps
\* reconnect_backoff[min(backoff_index, len - 1)] and the index goes up by one.
C6_BackoffAfterFailure ==
    [][(rfPc = "factory" /\ ~stop /\ out'.err = "ConnectionError"
            /\ out'.op \in {"rf_call", "rf_poll", "rf_retry", "rf_exit"})
          => /\ rfPc' = "backoff"
             /\ rfSleep' = BackoffWait(backoff_index)
             /\ backoff_index' = backoff_index + 1]_vars

\* C7: with the factory that fails twice and then returns a transport,
\* run_forever, once it has made its first attempt, goes on until the manager
\* is Connected by the third attempt (connect-attempt count 3), unless stop is
\* set first.
C7_ThirdAttemptConnects ==
    (ws_factory = "fail2" /\ rfPc = "factory" /\ rfCall = 1)
        ~> (stop \/ (connected /\ ws = 3 /\ connect_attempts >= 3))

\* run_forever is polling the connection its third attempt made
C7_Witness ==
    /\ ws_factory = "fail2" /\ ~stop
    /\ rfPc = "poll" /\ connected /\ connect_attempts = 3

\* C8: once stop is set a running run_forever returns, and when it returns it
\* has run disconnect(): the manager is Disconnected, no handle is stored, the
\* loop tasks that were current when disconnect() ran are not alive, and the
\* last thing it did was to notify the on_disconnected subscribers with None.
C8_StopReturns ==
    /\ (stop /\ rfPc \notin {"idle", "done"}) ~> (rfPc = "done")
    /\ [][(rfPc # "done" /\ rfPc' = "done") =>
            LET fresh == rfPc = "factory" /\ senders[rfCall].pc = "none"
                         /\ senders'[rfCall].pc # "none"
                st == IF fresh THEN rfCall ELSE sender_task
                rt == IF fresh THEN rfCall ELSE receiver_task
            IN  /\ ~connected' /\ ws' = None
                /\ sender_task' = None /\ receiver_task' = None
                /\ st # None => ~Alive(senders'[st].pc)
                /\ rt # None => ~Alive(receivers'[rt].pc)
                /\ out'.ev # <<>>
                /\ out'.ev[Len(out'.ev)] = [e |-> "on_disconnected",
                                            sub |-> on_disconnected[Len(on_disconnected)],
                                            arg |-> "None"]]_vars

\* run_forever has returned after supervising a connection whose loops it cancelled
C8_Witness ==
    /\ rfPc = "done" /\ out.op = "rf_exit"
    /\ \E h \in Handle : senders[h].pc = "cancelled" /\ closeCalls[h] = 1

\* C9: run_forever does not return while stop is unset, whatever fails.
C9_FailForward == rfPc = "done" => stop

\* run_forever is still at work after a failed attempt and after a connection
\* it supervised was lost
C9_Witness ==
    /\ ~stop /\ rfPc = "factory"
    /\ out.op = "rf_call" /\ out.err = "ConnectionError"
    /\ \E h \in Handle : receivers[h].pc = "done"

\* C10: the configuration error is not retried: with no factory configured
\* run_forever calls connect() once and never again.
C10_ConfigErrorFatal == ws_factory = "none" => rfTries <= 1

\* C11: connect() called while Connected returns with no side effects: the
\* factory is not invoked, the connect-attempt count, the stored handle and the
\* loop tasks are unchanged, and no on_connected subscriber is invoked.
C11_ConnectIdempotent ==
    [][out'.op = "connect_noop"
          => /\ connected
             /\ UNCHANGED <<mgrVars, taskVars, closeCalls, connCalls>>
             /\ out'.ev = <<>>]_vars

\* connect() has returned at once on a connected manager that has a subscriber
C11_Witness ==
    /\ out.op = "connect_noop" /\ connected
    /\ sender_task # None /\ on_connected # <<>>

\* C12: the sender and receiver loops run if and only if the state is
\* Connected: no loop is suspended inside its while when the state is
\* Disconnected (after one loop's failure the other does not stay alive), and
\* when the state is Connected the current loop tasks are alive.
C12_LoopsIffConnected ==
    /\ \A h \in Handle :
          (Running(senders[h].pc) \/ Running(receivers[h].pc)) => connected
    /\ connected =>
          /\ sender_task # None /\ Alive(senders[sender_task].pc)
          /\ receiver_task # None /\ Alive(receivers[receiver_task].pc)

\* C13: at most one handle created by the factory is live (created and not yet
\* closed) at any time, and no handle is closed more than once.
C13_OneLiveHandle ==
    /\ Cardinality({h \in Handle : Created(h) /\ closeCalls[h] = 0}) <= 1
    /\ \A h \in Handle : closeCalls[h] <= 1

\* the subscribers a step invoked, in invocation order
Invoked(ev) == [i \in DOMAIN ev |-> ev[i].sub]

\* C14: subscriber exceptions are isolated.  When a subscriber of the event an
\* operation notifies raises, the remaining subscribers of that event are still
\* invoked and the operation goes on as if nothing was raised: connect() ends
\* Connected, the receiver loop has queued the frame and is reading again, and
\* the queues hold what they would hold otherwise.
C14_SubscriberIsolation ==
    [][/\ (out'.op = "connect_ok" /\ \E i \in DOMAIN on_connected : on_connected[i] \in Raising)
            => /\ Invoked(out'.ev) = on_connected
               /\ connected' /\ ws' # None
               /\ Alive(senders'[sender_task'].pc) /\ Alive(receivers'[receiver_task'].pc)
               /\ UNCHANGED <<send_queue, recv_queue>>
       /\ (out'.op = "recv_frame" /\ \E i \in DOMAIN on_message : on_message[i] \in Raising)
            => /\ Invoked(out'.ev) = on_message
               /\ recv_queue' = Append(recv_queue, recvLog'[Len(recvLog')])
               /\ \E t \in Handle :
                     /\ receivers[t].pc = "recving"
                     /\ connected => receivers'[t].pc = "recving"
               /\ UNCHANGED <<connected, send_queue>>
       /\ (out'.op \in {"disconnect", "recv_none", "recv_raise"}
              /\ \E i \in DOMAIN on_disconnected : on_disconnected[i] \in Raising)
            => /\ Invoked(out'.ev) = on_disconnected
               /\ ~connected'
               /\ UNCHANGED <<send_queue, recv_queue>>]_vars

\* a frame was delivered to two on_message subscribers, the first of which raised
C14_Witness ==
    /\ out.op = "recv_frame"
    /\ Len(on_message) = 2 /\ on_message[1] \in Raising
    /\ Len(out.ev) = 2 /\ out.ev[2].sub \in Sub
    /\ recv_queue # <<>> /\ connected

\* C15: a register_on_* call appends the subscriber to the event's list, also
\* when it is already there, and every notification of an event invokes the
\* subscribers of its list in registration order, each entry once, all with the
\* same argument.
C15_RegistrationOrder ==
    [][/\ \A list \in {<<on_connected, on_connected'>>,
                         <<on_disconnected, on_disconnected'>>,
                         <<on_message, on_message'>>} :
             list[2] # list[1]
                => \E cb \in Sub \cup Raising : list[2] = Append(list[1], cb)
       /\ out'.op = "connect_ok"
             => out'.ev = [i \in DOMAIN on_connected |->
                              [e |-> "on_connected", sub |-> on_connected[i], arg |-> "-"]]
       /\ out'.op = "recv_frame"
             => out'.ev = [i \in DOMAIN on_message |->
                              [e |-> "on_message", sub |-> on_message[i],
                               arg |-> recvLog'[Len(recvLog')]]]
       /\ out'.op \in {"disconnect", "recv_none", "recv_raise"}
             => /\ Invoked(out'.ev) = on_disconnected
                /\ \A i \in DOMAIN out'.ev :
                      /\ out'.ev[i].e = "on_disconnected"
                      /\ out'.ev[i].arg = out'.ev[1].arg]_vars

\* disconnect() has notified a subscriber that was registered twice, twice
C15_Witness ==
    /\ out.op = "disconnect"
    /\ Len(on_disconnected) = 2 /\ on_disconnected[1] = on_disconnected[2]
    /\ Len(out.ev) = 2 /\ out.ev[1].sub = out.ev[2].sub

\* C16: the outbound queue persists while Disconnected.  In a step taken with
\* the state Disconnected no frame leaves the outbound queue (frames may only
\* be added at its end) and no frame is handed to a transport.
C16_QueuePersists ==
    [][~connected
          => /\ Len(send_queue') >= Len(send_queue)
             /\ SubSeq(send_queue', 1, Len(send_queue)) = send_queue
             /\ wireLog' = wireLog]_vars

\* C17: disconnect() called when the state is Disconnected and no handle is
\* stored invokes no close() and leaves the state, the stored handle, the loop
\* tasks and both queues exactly as they were.
C17_DisconnectIdempotent ==
    [][(out'.op = "disconnect" /\ ~connected /\ ws = None)
          => UNCHANGED <<connected, ws, sender_task, receiver_task, taskVars,
                         closeCalls, send_queue, recv_queue>>]_vars

\* disconnect() has run on a manager that never connected, with a frame queued
C17_Witness ==
    /\ out.op = "disconnect" /\ connect_attempts = 0
    /\ send_queue # <<>> /\ ~connected /\ ws = None

\* C18: a direct connect() from Disconnected invokes the factory exactly once
\* (one invocation per counted attempt, answered once); when the factory fails
\* the failure reaches the caller and the call leaves the manager as it found
\* it: no handle stored, no loop started, the state not made Connected, and no
\* on_connected or on_disconnected subscriber invoked.
C18_ConnectFailure ==
    [][/\ connCalls' # connCalls
            => \/ /\ \E n \in Handle \ connCalls : connCalls' = connCalls \cup {n}
                  /\ connect_attempts' = connect_attempts + 1
                  /\ ~connected
               \/ /\ \E n \in connCalls : connCalls' = connCalls \ {n}
                  /\ connect_attempts' = connect_attempts
                  /\ out'.op \in {"connect_ok", "connect_raise"}
       /\ (out'.op = "connect_raise" /\ ws_factory # "none")
            => /\ out'.err = "ConnectionError"
               /\ out'.ev = <<>>
               /\ \E n \in connCalls : connCalls' = connCalls \ {n}
               /\ UNCHANGED <<mgrVars, taskVars, closeCalls>>]_vars

\* the only connect() made so far has failed, with subscribers registered
C18_Witness ==
    /\ out.op = "connect_raise" /\ out.err = "ConnectionError"
    /\ connect_attempts = 1 /\ connCalls = {}
    /\ ~connected /\ ws = None /\ sender_task = None /\ receiver_task = None
    /\ on_connected # <<>> /\ on_disconnected # <<>>

\* C19: a transport error raised by send in the sender loop or by recv in the
\* receiver loop does not escape the loop.  In the step that handles it the
\* state becomes Disconnected, every on_disconnected subscriber is invoked with
\* that error, and the loop ends normally; a loop that has ended makes no
\* further send or recv.
C19_TransportErrorContained ==
    [][/\ out'.op = "send_raise"
            => /\ ~connected'
               /\ out'.ev = [i \in DOMAIN on_disconnected |->
                                [e |-> "on_disconnected", sub |-> on_disconnected[i],
                                 arg |-> "SendError"]]
               /\ \E t \in Handle :
                     /\ senders[t].pc = "sending"
                     /\ senders' = [senders EXCEPT ![t] = [pc |-> "done", frame |-> "-"]]
               /\ UNCHANGED <<receivers, wireLog, recvLog>>
       /\ out'.op = "recv_raise"
            => /\ ~connected'
               /\ out'.ev = [i \in DOMAIN on_disconnected |->
                                [e |-> "on_disconnected", sub |-> on_disconnected[i],
                                 arg |-> "RecvError"]]
               /\ \E t \in Handle :
                     /\ receivers[t].pc = "recving"
                     /\ receivers' = [receivers EXCEPT ![t] = [pc |-> "done", on |-> None]]
               /\ UNCHANGED <<senders, wireLog, recvLog>>
       /\ \A t \in Handle :
             /\ senders[t].pc = "done" => senders'[t].pc = "done"
             /\ receivers[t].pc = "done" => receivers'[t].pc = "done"
             /\ senders'[t].pc = "failed" => senders[t].pc \in {"start", "failed"}
             /\ receivers'[t].pc = "failed" => receivers[t].pc \in {"start", "failed"}]_vars

\* a sender loop has ended on a send error and the subscriber was told
C19_Witness ==
    /\ out.op = "send_raise" /\ ~connected
    /\ Len(out.ev) = 1 /\ out.ev[1].arg = "SendError"
    /\ \E t \in Handle : senders[t].pc = "done" /\ Alive(receivers[t].pc)

\* C20: when recv() returns the closed signal the receiver loop sets the state
\* to Disconnected, invokes on_disconnected with no error and ends; the closed
\* signal is never put on the inbound queue, never passed to on_message and
\* never returned by receive_voice.
C20_RemoteClose ==
    /\ [](/\ \A i \in DOMAIN recv_queue : recv_queue[i] # None
          /\ \A i \in DOMAIN voiceLog : voiceLog[i] # None
          /\ \A i \in DOMAIN out.ev :
                out.ev[i].e = "on_message" => out.ev[i].arg \in Frame)
    /\ [][out'.op = "recv_none"
            => /\ ~connected'
               /\ out'.ev = [i \in DOMAIN on_disconnected |->
                                [e |-> "on_disconnected", sub |-> on_disconnected[i],
                                 arg |-> "None"]]
               /\ \E t \in Handle :
                     /\ receivers[t].pc = "recving"
                     /\ receivers' = [receivers EXCEPT ![t] = [pc |-> "done", on |-> None]]
               /\ UNCHANGED <<recv_queue, recvLog, voiceLog, rvPc>>]_vars

\* the remote end closed after a frame was delivered, while receive_voice waits
C20_Witness ==
    /\ out.op = "recv_none" /\ ~connected
    /\ Len(out.ev) = 1 /\ out.ev[1].arg = "None"
    /\ voiceLog # <<>> /\ rvPc = "waiting"

\* C21: each frame received from the transport is on the inbound queue when
\* its on_message subscribers are invoked (the put comes first, so a subscriber
\* cannot keep it off the queue), and every on_message subscriber is invoked
\* exactly once for it, with that frame: the notifications of a step are for
\* the frame received in that step, so they come in the order of reception.
C21_QueuedThenNotified ==
    [][out'.op = "recv_frame"
          => LET f == recvLog'[Len(recvLog')]
             IN  /\ recvLog' = Append(recvLog, f)
                 /\ recv_queue' = Append(recv_queue, f)
                 /\ Len(out'.ev) = Len(on_message)
                 /\ \A i \in DOMAIN on_message :
                       out'.ev[i] = [e |-> "on_message", sub |-> on_message[i],
                                     arg |-> f]]_vars

\* the second frame has been queued behind the first and delivered to two
\* subscribers, one of which raises
C21_Witness ==
    /\ out.op = "recv_frame" /\ recvLog = <<1, 2>> /\ recv_queue = <<1, 2>>
    /\ Len(on_message) = 2 /\ on_message[2] \in Raising
    /\ out.ev[1].arg = 2 /\ out.ev[2].arg = 2

\* C22: disconnect() completes its teardown when the transport's close()
\* raises: the error does not leave disconnect(), the state is Disconnected,
\* both loop tasks have been cancelled and forgotten, the stored handle is
\* cleared, and every on_disconnected subscriber is invoked with no error.
C22_CloseErrorSwallowed ==
    [][(out'.op = "disconnect" /\ out'.err = "CloseError")
          => /\ ~connected' /\ ws' = None
             /\ closeCalls'[ws] = closeCalls[ws] + 1
             /\ sender_task' = None /\ receiver_task' = None
             /\ sender_task # None => ~Alive(senders'[sender_task].pc)
             /\ receiver_task # None => ~Alive(receivers'[receiver_task].pc)
             /\ out'.ev = [i \in DOMAIN on_disconnected |->
                              [e |-> "on_disconnected", sub |-> on_disconnected[i],
                               arg |-> "None"]]]_vars

\* disconnect() has torn down a connection whose close() raised
C22_Witness ==
    /\ out.op = "disconnect" /\ out.err = "CloseError"
    /\ Len(out.ev) = 1 /\ ~connected /\ ws = None
    /\ \E h \in Handle : /\ closeCalls[h] = 1
                          /\ senders[h].pc = "cancelled"
                          /\ receivers[h].pc = "cancelled"

ErrorNotices(ev, exc) ==
    SelectSeq(ev, LAMBDA n : n.e = "on_disconnected" /\ n.arg = exc)

\* C24: a connect attempt that fails inside run_forever leaves the state
\* Disconnected with no loop started for it, and the on_disconnected
\* subscribers are notified exactly once with the error of that attempt: each
\* subscriber one call, in list order.  This holds for a factory failure and
\* for the configuration error.
C24_FailureNotifiedOnce ==
    [][/\ (rfPc = "factory" /\ out'.err = "ConnectionError")
            => /\ ~connected'
               /\ senders'[rfCall].pc = "none" /\ receivers'[rfCall].pc = "none"
               /\ ErrorNotices(out'.ev, "ConnectionError")
                      = [i \in DOMAIN on_disconnected |->
                            [e |-> "on_disconnected", sub |-> on_disconnected[i],
                             arg |-> "ConnectionError"]]
       /\ out'.op = "rf_retry"
            => /\ ~connected'
               /\ UNCHANGED <<senders, receivers, sender_task, receiver_task>>
               /\ ErrorNotices(out'.ev, "RuntimeError")
                      = [i \in DOMAIN on_disconnected |->
                            [e |-> "on_disconnected", sub |-> on_disconnected[i],
                             arg |-> "RuntimeError"]]]_vars

\* the first attempt of run_forever has failed, the subscriber was told, and the
\* second attempt is under way with nothing started
C24_Witness ==
    /\ out.op = "rf_call" /\ out.err = "ConnectionError"
    /\ Len(out.ev) = 1 /\ out.ev[1].arg = "ConnectionError"
    /\ ~connected /\ rfTries = 2 /\ ws = None
    /\ \A h \in Handle : senders[h].pc = "none" /\ receivers[h].pc = "none"

\* C25: at any time at most one sender loop task and at most one receiver
\* loop task are running (suspended inside their while): a loop left over from
\* an earlier connection does not run alongside the loops of a later one.
C25_OneLoopEach ==
    /\ Cardinality({h \in Handle : Running(senders[h].pc)}) <= 1
    /\ Cardinality({h \in Handle : Running(receivers[h].pc)}) <= 1

\* C26: overlapping connect() calls are safe: while one connect() is waiting
\* for the factory a second connect() does not invoke the factory again, so
\* that one handle is stored, one pair of loops started and on_connected
\* notified once.
C26_OverlappingConnects ==
    [][connCalls # {}
          => /\ connect_attempts' = connect_attempts
             /\ connCalls' \subseteq connCalls]_vars

\* C27: at-most-once delivery outbound.  The frames passed to the transports'
\* send, followed by the frames still queued, are frames send_audio was given,
\* each at most once and in call order (the k-th call passes frame k): a frame
\* whose send failed or was cancelled is neither queued again nor sent again,
\* and the frames behind it keep their order.
C27_AtMostOnce ==
    LET handled == wireLog \o send_queue
    IN  /\ \A i \in DOMAIN handled : handled[i] \in 1..Len(audioLog)
        /\ \A i, j \in DOMAIN handled : i < j => handled[i] < handled[j]

\* the send of the first frame has failed with the second frame queued behind it
C27_Witness ==
    /\ out.op = "send_raise" /\ ~connected
    /\ wireLog = <<1>> /\ send_queue = <<2>>

\* the calls of a step made for event e
Notices(ev, e) == SelectSeq(ev, LAMBDA n : n.e = e)

\* C28: one on_disconnected notification per event, not per connection.  When
\* a remote close, a loop failure or a disconnect() call directly follows a
\* step that delivered an on_disconnected notification for the same
\* connection, it still invokes every on_disconnected subscriber entry exactly
\* once, in registration order.
C28_NoticePerEvent ==
    [][((\E h \in Handle : Created(h))
          /\ Notices(out.ev, "on_disconnected") # <<>>
          /\ out.ev[Len(out.ev)].e = "on_disconnected"
          /\ out'.op \in {"disconnect", "recv_none", "recv_raise", "send_raise"})
          => /\ Len(out'.ev) = Len(on_disconnected)
             /\ \A i \in DOMAIN on_disconnected :
                   /\ out'.ev[i].e = "on_disconnected"
                   /\ out'.ev[i].sub = on_disconnected[i]]_vars

\* disconnect() has notified the subscriber after the receiver loop of the
\* same connection had ended on a remote close or a receive error
C28_Witness ==
    /\ out.op = "disconnect" /\ Len(out.ev) = 1
    /\ \E h \in Handle :
          /\ receivers[h].pc = "done" /\ closeCalls[h] = 1
          /\ \A g \in Handle : g > h => ~Created(g)

\* the original statement of C28: on_disconnected is notified at most once
\* per established connection.  Once a connection has been established, a
\* step that has delivered an on_disconnected notification (and no
\* on_connected after it) is not directly followed by a step that delivers
\* another one with no on_connected before it, and no step notifies a
\* subscriber entry more than once.
C28_OneDisconnectNotice ==
    [][((\E h \in Handle : Created(h))
          /\ Notices(out.ev, "on_disconnected") # <<>>
          /\ out.ev[Len(out.ev)].e = "on_disconnected")
          => /\ \/ Notices(out'.ev, "on_disconnected") = <<>>
                \/ out'.ev[1].e = "on_connected"
             /\ Len(Notices(out'.ev, "on_disconnected")) <= Len(on_disconnected)]_vars

\* C29: disconnect() wins over an in-flight connect().  When disconnect() has
\* completed while one connect() call was waiting for the factory and that
\* call then completes, the state is Disconnected, no sender or receiver loop
\* is alive and the handle the factory returned has been closed.
C29_DisconnectWins ==
    [][(out.op = "disconnect" /\ Cardinality(connCalls) = 1
          /\ out'.op = "connect_ok")
          => /\ ~connected'
             /\ \A h \in Handle :
                   /\ ~Alive(senders'[h].pc) /\ ~Alive(receivers'[h].pc)
                   /\ senders'[h].pc # "none" => closeCalls'[h] >= 1]_vars
====
